---- MODULE Spec2Model ----
(***************************************************************************)
(* Model of Datafile (src/src/fileio/datafile.cxx): a registry of named    *)
(* references to caller-owned scalars, fields and vectors, and the read    *)
(* and write drivers that transfer every registered variable to or from a  *)
(* DataFormat backend.                                                     *)
(*                                                                         *)
(* The caller's variables live in mem, indexed by address.  A registry     *)
(* entry holds the address of its target (d.ptr = &i).  The DataFormat     *)
(* backend, the Field/Vector classes and the logger are collaborators      *)
(* outside datafile.cxx; they are modelled by the small definitions of     *)
(* the sections "Fields and vectors" and "DataFormat backend".             *)
(***************************************************************************)
EXTENDS Integers, Sequences, FiniteSets, TLC

VARIABLES
  int_arr,        \* std::vector< VarStr<int> >
  BoutReal_arr,   \* std::vector< VarStr<BoutReal> >
  f2d_arr,        \* std::vector< VarStr<Field2D> >
  f3d_arr,        \* std::vector< VarStr<Field3D> >
  v2d_arr,        \* std::vector< VarStr<Vector2D> >
  v3d_arr,        \* std::vector< VarStr<Vector3D> >
  def_filename,   \* string def_filename
  enabled,        \* bool Datafile::enabled (global)
  wtime,          \* BoutReal Datafile::wtime (global), in clock ticks
  mem,            \* the caller's variables: address -> typed value
  disk,           \* the backend's file: key -> sequence of records
  calls,          \* backend primitives invoked by the last call, in order
  output,         \* warnings written to output by the last call, in order
  op,             \* the member function called last
  ret,            \* its return value (0 where it returns nothing)
  thrown,         \* name carried by the BoutException of the last call, "" if none
  ncalls,         \* read and write calls made so far in the run
  lastw,          \* what the last write that ran its loops wrote (history)
  file,           \* DataFormat *file: the handle held, NoHandle for NULL
  low_prec,       \* bool low_prec
  hlog            \* per handle: what the store invoked on it, in order

registry == <<int_arr, BoutReal_arr, f2d_arr, f3d_arr, v2d_arr, v3d_arr>>
vars == <<int_arr, BoutReal_arr, f2d_arr, f3d_arr, v2d_arr, v3d_arr,
          def_filename, enabled, wtime, mem, disk, calls, output, op, ret, thrown,
          ncalls, lastw, file, low_prec, hlog>>

(***************************************************************************)
(* Input domains                                                           *)
(***************************************************************************)
\* Variable names the caller registers.  "v" and "vx" are distinct names,
\* yet "vx" is also the x component key of a contravariant vector "v".
Names == {"v", "vx"}

\* Values of the grow argument (int grow); grow > 0 selects record mode.
GrowArgs == {-1, 0, 1}

\* Scalar values and (uniform) field contents.
Val == {0, 1, 2}

\* One address per name: a name can be registered once, and every
\* registered variable is a distinct object of the caller.
Addr == 1..Cardinality(Names)

(***************************************************************************)
(* Fields and vectors (Field2D, Field3D, Vector2D, Vector3D)               *)
(***************************************************************************)
Unalloc == [alloc |-> FALSE, data |-> 0]
Fld(d) == [alloc |-> TRUE, data |-> d]
FieldVals == {Unalloc} \cup {Fld(d) : d \in Val}

Scalar(k, x) == [kind |-> k, val |-> x]
Field(k, f) == [kind |-> k, fld |-> f]
Vector(k, x, y, z, c) == [kind |-> k, x |-> x, y |-> y, z |-> z, covariant |-> c]

\* The values a caller's variable of each kind starts with.  Vectors: the
\* x component is unallocated or allocated, y and z are allocated, the
\* basis flag is free; the x component differs from the scalar and field
\* value.
InitVals(k) ==
  CASE k \in {"int", "real"} -> {Scalar(k, 1)}
    [] k \in {"f2d", "f3d"} -> {Field(k, Unalloc), Field(k, Fld(1))}
    [] k \in {"v2d", "v3d"} ->
         {Vector(k, x, Fld(1), Fld(2), c) : x \in {Unalloc, Fld(2)}, c \in BOOLEAN}

\* The values the caller assigns to a variable holding v: zero, a new
\* value, and for a vector the same components under the other basis flag.
NewVals(v) ==
  CASE v.kind \in {"int", "real"} -> {Scalar(v.kind, 0), Scalar(v.kind, 2)}
    [] v.kind \in {"f2d", "f3d"} -> {Field(v.kind, Fld(0)), Field(v.kind, Fld(2))}
    [] v.kind \in {"v2d", "v3d"} ->
         {Vector(v.kind, Fld(0), Fld(0), Fld(0), v.covariant),
          Vector(v.kind, Fld(1), Fld(2), Fld(1), v.covariant),
          [v EXCEPT !.covariant = ~v.covariant]}

Kinds == {"int", "real", "f2d", "f3d", "v2d", "v3d"}

(***************************************************************************)
(* Datafile::varAdded                                                      *)
(***************************************************************************)
InArr(arr, name) == \E k \in 1..Len(arr) : name = arr[k].name

\* varAdded without its last loop (over v3d_arr)
varAdded_NoV3d(name) ==
  \/ InArr(int_arr, name)
  \/ InArr(BoutReal_arr, name)
  \/ InArr(f2d_arr, name)
  \/ InArr(f3d_arr, name)
  \/ InArr(v2d_arr, name)

varAdded(name) ==
  \/ InArr(int_arr, name)
  \/ InArr(BoutReal_arr, name)
  \/ InArr(f2d_arr, name)
  \/ InArr(f3d_arr, name)
  \/ InArr(v2d_arr, name)
  \/ InArr(v3d_arr, name)

(***************************************************************************)
(* Datafile::add, six overloads                                            *)
(***************************************************************************)
\* VarStr<T> d; d.ptr = &i; d.name = name; d.grow = (grow > 0)
VarStr(ptr, name, grow) == [ptr |-> ptr, name |-> name, grow |-> (grow > 0)]

\* vectors also record d.covar = f.covariant
VarStrVec(ptr, name, grow) ==
  [ptr |-> ptr, name |-> name, grow |-> (grow > 0), covar |-> mem[ptr].covariant]

add_int(i, name, grow) ==
  /\ op' = "add"
  /\ ret' = 0
  /\ calls' = <<>>
  /\ output' = <<>>
  /\ UNCHANGED <<def_filename, enabled, wtime, mem, disk>>
  /\ IF varAdded(name)
     THEN /\ thrown' = name
          /\ UNCHANGED registry
     ELSE /\ thrown' = ""
          /\ int_arr' = Append(int_arr, VarStr(i, name, grow))
          /\ UNCHANGED <<BoutReal_arr, f2d_arr, f3d_arr, v2d_arr, v3d_arr>>

add_real(r, name, grow) ==
  /\ op' = "add"
  /\ ret' = 0
  /\ calls' = <<>>
  /\ output' = <<>>
  /\ UNCHANGED <<def_filename, enabled, wtime, mem, disk>>
  /\ IF varAdded(name)
     THEN /\ thrown' = name
          /\ UNCHANGED registry
     ELSE /\ thrown' = ""
          /\ BoutReal_arr' = Append(BoutReal_arr, VarStr(r, name, grow))
          /\ UNCHANGED <<int_arr, f2d_arr, f3d_arr, v2d_arr, v3d_arr>>

add_f2d(f, name, grow) ==
  /\ op' = "add"
  /\ ret' = 0
  /\ calls' = <<>>
  /\ output' = <<>>
  /\ UNCHANGED <<def_filename, enabled, wtime, mem, disk>>
  /\ IF varAdded(name)
     THEN /\ thrown' = name
          /\ UNCHANGED registry
     ELSE /\ thrown' = ""
          /\ f2d_arr' = Append(f2d_arr, VarStr(f, name, grow))
          /\ UNCHANGED <<int_arr, BoutReal_arr, f3d_arr, v2d_arr, v3d_arr>>

add_f3d(f, name, grow) ==
  /\ op' = "add"
  /\ ret' = 0
  /\ calls' = <<>>
  /\ output' = <<>>
  /\ UNCHANGED <<def_filename, enabled, wtime, mem, disk>>
  /\ IF varAdded(name)
     THEN /\ thrown' = name
          /\ UNCHANGED registry
     ELSE /\ thrown' = ""
          /\ f3d_arr' = Append(f3d_arr, VarStr(f, name, grow))
          /\ UNCHANGED <<int_arr, BoutReal_arr, f2d_arr, v2d_arr, v3d_arr>>

add_v2d(f, name, grow) ==
  /\ op' = "add"
  /\ ret' = 0
  /\ calls' = <<>>
  /\ output' = <<>>
  /\ UNCHANGED <<def_filename, enabled, wtime, mem, disk>>
  /\ IF varAdded(name)
     THEN /\ thrown' = name
          /\ UNCHANGED registry
     ELSE /\ thrown' = ""
          /\ v2d_arr' = Append(v2d_arr, VarStrVec(f, name, grow))
          /\ UNCHANGED <<int_arr, BoutReal_arr, f2d_arr, f3d_arr, v3d_arr>>

add_v3d(f, name, grow) ==
  /\ op' = "add"
  /\ ret' = 0
  /\ calls' = <<>>
  /\ output' = <<>>
  /\ UNCHANGED <<def_filename, enabled, wtime, mem, disk>>
  /\ IF varAdded(name)
     THEN /\ thrown' = name
          /\ UNCHANGED registry
     ELSE /\ thrown' = ""
          /\ v3d_arr' = Append(v3d_arr, VarStrVec(f, name, grow))
          /\ UNCHANGED <<int_arr, BoutReal_arr, f2d_arr, f3d_arr, v2d_arr>>

(***************************************************************************)
(* Vector2D / Vector3D basis conversion                                    *)
(***************************************************************************)
\* Lowering or raising an index multiplies by the metric; on the value
\* domain 0..2 the metric acts as multiplication by 2 modulo 3, which is its
\* own inverse and maps zero to zero.
Metric(d) == (2 * d) % 3

ConvField(f) == IF f.alloc THEN Fld(Metric(f.data)) ELSE f

toCovariant(v) ==
  IF v.covariant THEN v
  ELSE [v EXCEPT !.x = ConvField(v.x), !.y = ConvField(v.y),
                 !.z = ConvField(v.z), !.covariant = TRUE]

toContravariant(v) ==
  IF v.covariant
  THEN [v EXCEPT !.x = ConvField(v.x), !.y = ConvField(v.y),
                 !.z = ConvField(v.z), !.covariant = FALSE]
  ELSE v

(***************************************************************************)
(* DataFormat backend                                                      *)
(***************************************************************************)
\* An invocation of a backend primitive as it appears in calls: the
\* primitive, its name or file argument, and the value it returned (TRUE
\* for the primitives that return nothing).
Call(prim, arg, res) == [prim |-> prim, arg |-> arg, res |-> res]

\* A warning line of output.write.
Warning(what, name) == [what |-> what, name |-> name]

\* read / read_rec succeed when the file holds the key and the backend does
\* not fail on it (fail: the keys whose read the backend fails).
BackendReadOk(name, fail) == name \in DOMAIN disk /\ name \notin fail

\* read returns the stored value, read_rec the record selected by
\* setRecord(-1): the latest one.
BackendRead(name) == disk[name][1]
BackendReadRec(name) == disk[name][Len(disk[name])]

\* write stores a single value under the key, write_rec appends a record.
BackendWrite(d, name, x) == IF name \in DOMAIN d THEN [d EXCEPT ![name] = <<x>>]
                            ELSE d @@ (name :> <<x>>)
BackendWriteRec(d, name, x) == IF name \in DOMAIN d THEN [d EXCEPT ![name] = Append(@, x)]
                               ELSE d @@ (name :> <<x>>)

\* openw(filename, append): without append the file is created anew.
BackendOpenw(append) == IF append THEN disk ELSE <<>>

(***************************************************************************)
(* Datafile::read                                                          *)
(***************************************************************************)
\* The read drivers thread a record st = [mem, calls, output] through the
\* loops; fail is the set of keys the backend fails to read.

\* read_scalar that leaves the target as it is when the read fails
read_scalar_NoZero(st, it, what, fail) ==
  LET prim == IF it.grow THEN "read_rec" ELSE "read"
      c == Append(st.calls, Call(prim, it.name, BackendReadOk(it.name, fail)))
  IN IF BackendReadOk(it.name, fail)
     THEN [st EXCEPT !.calls = c,
                     !.mem[it.ptr].val =
                        IF it.grow THEN BackendReadRec(it.name) ELSE BackendRead(it.name)]
     ELSE [st EXCEPT !.calls = c,
                     !.output = Append(@, Warning(what, it.name))]

\* body of the loops over int_arr and BoutReal_arr
read_scalar(st, it, what, fail) ==
  LET prim == IF it.grow THEN "read_rec" ELSE "read"
      c == Append(st.calls, Call(prim, it.name, BackendReadOk(it.name, fail)))
  IN IF BackendReadOk(it.name, fail)
     THEN [st EXCEPT !.calls = c,
                     !.mem[it.ptr].val =
                        IF it.grow THEN BackendReadRec(it.name) ELSE BackendRead(it.name)]
     ELSE [st EXCEPT !.calls = c,
                     !.output = Append(@, Warning(what, it.name)),
                     !.mem[it.ptr].val = 0]

\* f is the field read into: component comp of the variable at address ptr
read_field(st, name, ptr, comp, grow, what, fail) ==
  LET prim == IF grow THEN "read_rec" ELSE "read"
      c == Append(st.calls, Call(prim, name, BackendReadOk(name, fail)))
  IN IF BackendReadOk(name, fail)
     THEN [st EXCEPT !.calls = c,
                     !.mem[ptr][comp] =
                        Fld(IF grow THEN BackendReadRec(name) ELSE BackendRead(name))]
     ELSE [st EXCEPT !.calls = c,
                     !.output = Append(@, Warning(what, name)),
                     !.mem[ptr][comp] = Fld(0)]

read_f2d(st, name, ptr, comp, grow, fail) ==
  read_field(st, name, ptr, comp, grow, "2D field", fail)

read_f3d(st, name, ptr, comp, grow, fail) ==
  read_field(st, name, ptr, comp, grow, "3D field", fail)

\* read_v2d that takes the keys from the basis flag of the target
read_v2d_TargetBasis(st, it, fail) ==
  LET cv == mem[it.ptr].covariant
      sx == IF cv THEN "_x" ELSE "x"
      sy == IF cv THEN "_y" ELSE "y"
      sz == IF cv THEN "_z" ELSE "z"
      s1 == read_f2d(st, it.name \o sx, it.ptr, "x", it.grow, fail)
      s2 == read_f2d(s1, it.name \o sy, it.ptr, "y", it.grow, fail)
      s3 == read_f2d(s2, it.name \o sz, it.ptr, "z", it.grow, fail)
  IN [s3 EXCEPT !.mem[it.ptr].covariant = it.covar]

\* read_v2d that leaves the basis flag of the target as it finds it
read_v2d_KeepFlag(st, it, fail) ==
  LET sx == IF it.covar THEN "_x" ELSE "x"
      sy == IF it.covar THEN "_y" ELSE "y"
      sz == IF it.covar THEN "_z" ELSE "z"
      s1 == read_f2d(st, it.name \o sx, it.ptr, "x", it.grow, fail)
      s2 == read_f2d(s1, it.name \o sy, it.ptr, "y", it.grow, fail)
  IN read_f2d(s2, it.name \o sz, it.ptr, "z", it.grow, fail)

\* body of the loop over v2d_arr
read_v2d(st, it, fail) ==
  LET sx == IF it.covar THEN "_x" ELSE "x"
      sy == IF it.covar THEN "_y" ELSE "y"
      sz == IF it.covar THEN "_z" ELSE "z"
      s1 == read_f2d(st, it.name \o sx, it.ptr, "x", it.grow, fail)
      s2 == read_f2d(s1, it.name \o sy, it.ptr, "y", it.grow, fail)
      s3 == read_f2d(s2, it.name \o sz, it.ptr, "z", it.grow, fail)
  IN [s3 EXCEPT !.mem[it.ptr].covariant = it.covar]

\* read_v3d that reads the components as z, y, x
read_v3d_Reversed(st, it, fail) ==
  LET sx == IF it.covar THEN "_x" ELSE "x"
      sy == IF it.covar THEN "_y" ELSE "y"
      sz == IF it.covar THEN "_z" ELSE "z"
      s1 == read_f3d(st, it.name \o sz, it.ptr, "z", it.grow, fail)
      s2 == read_f3d(s1, it.name \o sy, it.ptr, "y", it.grow, fail)
      s3 == read_f3d(s2, it.name \o sx, it.ptr, "x", it.grow, fail)
  IN [s3 EXCEPT !.mem[it.ptr].covariant = it.covar]

\* body of the loop over v3d_arr
read_v3d(st, it, fail) ==
  LET sx == IF it.covar THEN "_x" ELSE "x"
      sy == IF it.covar THEN "_y" ELSE "y"
      sz == IF it.covar THEN "_z" ELSE "z"
      s1 == read_f3d(st, it.name \o sx, it.ptr, "x", it.grow, fail)
      s2 == read_f3d(s1, it.name \o sy, it.ptr, "y", it.grow, fail)
      s3 == read_f3d(s2, it.name \o sz, it.ptr, "z", it.grow, fail)
  IN [s3 EXCEPT !.mem[it.ptr].covariant = it.covar]

\* the six loops of read, in the order of the code
read_loops(st0, fail) ==
  LET I[k \in 0..Len(int_arr)] ==
        IF k = 0 THEN st0 ELSE read_scalar(I[k-1], int_arr[k], "integer", fail)
      R[k \in 0..Len(BoutReal_arr)] ==
        IF k = 0 THEN I[Len(int_arr)]
        ELSE read_scalar(R[k-1], BoutReal_arr[k], "BoutReal", fail)
      F[k \in 0..Len(f2d_arr)] ==
        IF k = 0 THEN R[Len(BoutReal_arr)]
        ELSE read_f2d(F[k-1], f2d_arr[k].name, f2d_arr[k].ptr, "fld", f2d_arr[k].grow, fail)
      G[k \in 0..Len(f3d_arr)] ==
        IF k = 0 THEN F[Len(f2d_arr)]
        ELSE read_f3d(G[k-1], f3d_arr[k].name, f3d_arr[k].ptr, "fld", f3d_arr[k].grow, fail)
      V[k \in 0..Len(v2d_arr)] ==
        IF k = 0 THEN G[Len(f3d_arr)] ELSE read_v2d(V[k-1], v2d_arr[k], fail)
      W[k \in 0..Len(v3d_arr)] ==
        IF k = 0 THEN V[Len(v2d_arr)] ELSE read_v3d(W[k-1], v3d_arr[k], fail)
  IN W[Len(v3d_arr)]

\* A path template: NULL is the null pointer, <<s>> points to the text s.
NULL == <<>>

\* vsprintf(filename, format, ap) for a template without conversions
vsprintf(format) == format[1]

\* read without the test of is_valid
read_NoValidCheck(format, openr_ok, valid, fail, dt) ==
  /\ op' = "read"
  /\ thrown' = ""
  /\ UNCHANGED <<registry, def_filename, enabled, disk>>
  /\ IF format = NULL
     THEN /\ ret' = 1
          /\ calls' = <<>>
          /\ output' = <<>>
          /\ UNCHANGED <<mem, wtime>>
     ELSE LET opened == <<Call("openr", vsprintf(format), openr_ok)>>
              checked == Append(opened, Call("is_valid", "", valid))
              st == read_loops([mem |-> mem,
                                calls |-> Append(checked, Call("setRecord", "-1", TRUE)),
                                output |-> <<>>], fail)
          IN IF ~openr_ok
             THEN /\ ret' = 1
                  /\ calls' = opened
                  /\ output' = <<>>
                  /\ UNCHANGED <<mem, wtime>>
             ELSE /\ ret' = 0
                  /\ mem' = st.mem
                  /\ calls' = Append(st.calls, Call("close", "", TRUE))
                  /\ output' = st.output
                  /\ wtime' = wtime + dt

\* int Datafile::read(const char *format, ...).  openr_ok and valid are the
\* results of file->openr and file->is_valid, dt the elapsed clock ticks.
read(format, openr_ok, valid, fail, dt) ==
  /\ op' = "read"
  /\ thrown' = ""
  /\ UNCHANGED <<registry, def_filename, enabled, disk>>
  /\ IF format = NULL
     THEN /\ ret' = 1
          /\ calls' = <<>>
          /\ output' = <<>>
          /\ UNCHANGED <<mem, wtime>>
     ELSE LET opened == <<Call("openr", vsprintf(format), openr_ok)>>
              checked == Append(opened, Call("is_valid", "", valid))
              st == read_loops([mem |-> mem,
                                calls |-> Append(checked, Call("setRecord", "-1", TRUE)),
                                output |-> <<>>], fail)
          IN IF ~openr_ok
             THEN /\ ret' = 1
                  /\ calls' = opened
                  /\ output' = <<>>
                  /\ UNCHANGED <<mem, wtime>>
             ELSE IF ~valid
             THEN /\ ret' = 1
                  /\ calls' = checked
                  /\ output' = <<>>
                  /\ UNCHANGED <<mem, wtime>>
             ELSE /\ ret' = 0
                  /\ mem' = st.mem
                  /\ calls' = Append(st.calls, Call("close", "", TRUE))
                  /\ output' = st.output
                  /\ wtime' = wtime + dt

(***************************************************************************)
(* Datafile::write, Datafile::append                                       *)
(***************************************************************************)
\* The write drivers thread a record st = [disk, calls]; wfail is the set
\* of keys whose write the backend fails (nothing is stored for them).

\* body of the loops over int_arr and BoutReal_arr
write_scalar(st, it, wfail) ==
  LET prim == IF it.grow THEN "write_rec" ELSE "write"
      c == Append(st.calls, Call(prim, it.name, it.name \notin wfail))
      x == mem[it.ptr].val
  IN IF it.name \in wfail
     THEN [st EXCEPT !.calls = c]
     ELSE [st EXCEPT !.calls = c,
                     !.disk = IF it.grow THEN BackendWriteRec(@, it.name, x)
                              ELSE BackendWrite(@, it.name, x)]

\* f is the value of the field written
write_field(st, name, f, grow, wfail) ==
  LET prim == IF grow THEN "write_rec" ELSE "write"
      c == Append(st.calls, Call(prim, name, name \notin wfail))
  IN IF ~f.alloc
     THEN st
     ELSE IF name \in wfail
     THEN [st EXCEPT !.calls = c]
     ELSE [st EXCEPT !.calls = c,
                     !.disk = IF grow THEN BackendWriteRec(@, name, f.data)
                              ELSE BackendWrite(@, name, f.data)]

write_f2d(st, name, f, grow, wfail) == write_field(st, name, f, grow, wfail)

\* write_f3d that always uses the plain primitive
write_f3d_Plain(st, name, f, grow, wfail) == write_field(st, name, f, FALSE, wfail)

write_f3d(st, name, f, grow, wfail) == write_field(st, name, f, grow, wfail)

\* The copy of the target a vector loop writes: Vector2D v = *(it->ptr),
\* converted to the basis recorded for the binding.
VectorCopy(it) ==
  IF it.covar THEN toCovariant(mem[it.ptr]) ELSE toContravariant(mem[it.ptr])

\* body of the loop over v2d_arr
write_v2d(st, it, wfail) ==
  LET v == VectorCopy(it)
      sx == IF it.covar THEN "_x" ELSE "x"
      sy == IF it.covar THEN "_y" ELSE "y"
      sz == IF it.covar THEN "_z" ELSE "z"
      s1 == write_f2d(st, it.name \o sx, v.x, it.grow, wfail)
      s2 == write_f2d(s1, it.name \o sy, v.y, it.grow, wfail)
  IN write_f2d(s2, it.name \o sz, v.z, it.grow, wfail)

\* body of the loop over v3d_arr
write_v3d(st, it, wfail) ==
  LET v == VectorCopy(it)
      sx == IF it.covar THEN "_x" ELSE "x"
      sy == IF it.covar THEN "_y" ELSE "y"
      sz == IF it.covar THEN "_z" ELSE "z"
      s1 == write_f3d(st, it.name \o sx, v.x, it.grow, wfail)
      s2 == write_f3d(s1, it.name \o sy, v.y, it.grow, wfail)
  IN write_f3d(s2, it.name \o sz, v.z, it.grow, wfail)

\* the six loops of write, in the order of the code
write_loops(st0, wfail) ==
  LET I[k \in 0..Len(int_arr)] ==
        IF k = 0 THEN st0 ELSE write_scalar(I[k-1], int_arr[k], wfail)
      R[k \in 0..Len(BoutReal_arr)] ==
        IF k = 0 THEN I[Len(int_arr)] ELSE write_scalar(R[k-1], BoutReal_arr[k], wfail)
      F[k \in 0..Len(f2d_arr)] ==
        IF k = 0 THEN R[Len(BoutReal_arr)]
        ELSE write_f2d(F[k-1], f2d_arr[k].name, mem[f2d_arr[k].ptr].fld, f2d_arr[k].grow, wfail)
      G[k \in 0..Len(f3d_arr)] ==
        IF k = 0 THEN F[Len(f2d_arr)]
        ELSE write_f3d(G[k-1], f3d_arr[k].name, mem[f3d_arr[k].ptr].fld, f3d_arr[k].grow, wfail)
      V[k \in 0..Len(v2d_arr)] ==
        IF k = 0 THEN G[Len(f3d_arr)] ELSE write_v2d(V[k-1], v2d_arr[k], wfail)
      W[k \in 0..Len(v3d_arr)] ==
        IF k = 0 THEN V[Len(v2d_arr)] ELSE write_v3d(W[k-1], v3d_arr[k], wfail)
  IN W[Len(v3d_arr)]

\* write_string that adds the elapsed time before it tests is_valid
write_string_TimeEarly(filename, append, openw_ok, valid, wfail, dt) ==
  LET opened == <<[prim |-> "openw", arg |-> filename, res |-> openw_ok,
                   append |-> append]>>
      checked == Append(opened, Call("is_valid", "", valid))
      st == write_loops([disk |-> BackendOpenw(append),
                         calls |-> Append(checked, Call("setRecord", "-1", TRUE))], wfail)
  IN IF ~enabled
     THEN [ret |-> TRUE, disk |-> disk, calls |-> <<>>, wtime |-> wtime]
     ELSE IF ~openw_ok
     THEN [ret |-> FALSE, disk |-> disk, calls |-> opened, wtime |-> wtime]
     ELSE IF ~valid
     THEN [ret |-> FALSE, disk |-> BackendOpenw(append), calls |-> checked,
           wtime |-> wtime + dt]
     ELSE [ret |-> TRUE, disk |-> st.disk,
           calls |-> Append(st.calls, Call("close", "", TRUE)), wtime |-> wtime + dt]

\* write_string that reports the failure of a single backend write
write_string_Propagate(filename, append, openw_ok, valid, wfail, dt) ==
  LET opened == <<[prim |-> "openw", arg |-> filename, res |-> openw_ok,
                   append |-> append]>>
      checked == Append(opened, Call("is_valid", "", valid))
      st == write_loops([disk |-> BackendOpenw(append),
                         calls |-> Append(checked, Call("setRecord", "-1", TRUE))], wfail)
  IN IF ~enabled
     THEN [ret |-> TRUE, disk |-> disk, calls |-> <<>>, wtime |-> wtime]
     ELSE IF ~openw_ok
     THEN [ret |-> FALSE, disk |-> disk, calls |-> opened, wtime |-> wtime]
     ELSE IF ~valid
     THEN [ret |-> FALSE, disk |-> BackendOpenw(append), calls |-> checked, wtime |-> wtime]
     ELSE [ret |-> \A k \in 1..Len(st.calls) : st.calls[k].res, disk |-> st.disk,
           calls |-> Append(st.calls, Call("close", "", TRUE)), wtime |-> wtime + dt]

\* write_string with the test of enabled placed after the open
write_string_OpenFirst(filename, append, openw_ok, valid, wfail, dt) ==
  LET opened == <<[prim |-> "openw", arg |-> filename, res |-> openw_ok,
                   append |-> append]>>
      checked == Append(opened, Call("is_valid", "", valid))
      st == write_loops([disk |-> BackendOpenw(append),
                         calls |-> Append(checked, Call("setRecord", "-1", TRUE))], wfail)
  IN IF ~openw_ok
     THEN [ret |-> FALSE, disk |-> disk, calls |-> opened, wtime |-> wtime]
     ELSE IF ~enabled
     THEN [ret |-> TRUE, disk |-> BackendOpenw(append), calls |-> opened, wtime |-> wtime]
     ELSE IF ~valid
     THEN [ret |-> FALSE, disk |-> BackendOpenw(append), calls |-> checked, wtime |-> wtime]
     ELSE [ret |-> TRUE, disk |-> st.disk,
           calls |-> Append(st.calls, Call("close", "", TRUE)), wtime |-> wtime + dt]

\* The effect and result of bool Datafile::write(const string &filename,
\* bool append) as a record [ret, disk, calls, wtime].  openw_ok and valid
\* are the results of file->openw and file->is_valid.
write_string(filename, append, openw_ok, valid, wfail, dt) ==
  LET opened == <<[prim |-> "openw", arg |-> filename, res |-> openw_ok,
                   append |-> append]>>
      checked == Append(opened, Call("is_valid", "", valid))
      st == write_loops([disk |-> BackendOpenw(append),
                         calls |-> Append(checked, Call("setRecord", "-1", TRUE))], wfail)
  IN IF ~enabled
     THEN [ret |-> TRUE, disk |-> disk, calls |-> <<>>, wtime |-> wtime]
     ELSE IF ~openw_ok
     THEN [ret |-> FALSE, disk |-> disk, calls |-> opened, wtime |-> wtime]
     ELSE IF ~valid
     THEN [ret |-> FALSE, disk |-> BackendOpenw(append), calls |-> checked, wtime |-> wtime]
     ELSE [ret |-> TRUE, disk |-> st.disk,
           calls |-> Append(st.calls, Call("close", "", TRUE)), wtime |-> wtime + dt]

\* write(filename, append) that converts the vectors in place
write_file_InPlace(filename, append, openw_ok, valid, wfail, dt) ==
  LET w == write_string(filename, append, openw_ok, valid, wfail, dt)
  IN /\ op' = "write_file"
     /\ thrown' = ""
     /\ ret' = w.ret
     /\ disk' = w.disk
     /\ calls' = w.calls
     /\ wtime' = w.wtime
     /\ output' = <<>>
     /\ mem' = IF enabled /\ openw_ok /\ valid
               THEN [a \in DOMAIN mem |->
                       IF \E k \in 1..Len(v2d_arr) : v2d_arr[k].ptr = a
                       THEN VectorCopy(v2d_arr[CHOOSE k \in 1..Len(v2d_arr) : v2d_arr[k].ptr = a])
                       ELSE IF \E k \in 1..Len(v3d_arr) : v3d_arr[k].ptr = a
                       THEN VectorCopy(v3d_arr[CHOOSE k \in 1..Len(v3d_arr) : v3d_arr[k].ptr = a])
                       ELSE mem[a]]
               ELSE mem
     /\ UNCHANGED <<registry, def_filename, enabled>>

\* bool Datafile::write(const string &filename, bool append), called directly
write_file(filename, append, openw_ok, valid, wfail, dt) ==
  LET w == write_string(filename, append, openw_ok, valid, wfail, dt)
  IN /\ op' = "write_file"
     /\ thrown' = ""
     /\ ret' = w.ret
     /\ disk' = w.disk
     /\ calls' = w.calls
     /\ wtime' = w.wtime
     /\ output' = <<>>
     /\ UNCHANGED <<registry, def_filename, enabled, mem>>

\* the wrappers without the test of a null template: the empty name is
\* formatted and passed on
write_format_NoNullCheck(name, format, app, openw_ok, valid, wfail, dt) ==
  LET w == write_string(IF format = <<>> THEN "" ELSE format[1],
                        app, openw_ok, valid, wfail, dt)
  IN /\ op' = name
     /\ thrown' = ""
     /\ output' = <<>>
     /\ UNCHANGED <<registry, def_filename, enabled, mem>>
     /\ ret' = IF w.ret THEN 0 ELSE 1
     /\ disk' = w.disk
     /\ calls' = w.calls
     /\ wtime' = w.wtime

\* the wrappers int Datafile::write(const char *format, ...) (app = FALSE)
\* and int Datafile::append(const char *format, ...) (app = TRUE)
write_format(name, format, app, openw_ok, valid, wfail, dt) ==
  /\ op' = name
  /\ thrown' = ""
  /\ output' = <<>>
  /\ UNCHANGED <<registry, def_filename, enabled, mem>>
  /\ IF format = NULL
     THEN /\ ret' = 1
          /\ calls' = <<>>
          /\ UNCHANGED <<disk, wtime>>
     ELSE LET w == write_string(vsprintf(format), app, openw_ok, valid, wfail, dt)
          IN /\ ret' = IF w.ret THEN 0 ELSE 1
             /\ disk' = w.disk
             /\ calls' = w.calls
             /\ wtime' = w.wtime

write(format, openw_ok, valid, wfail, dt) ==
  write_format("write", format, FALSE, openw_ok, valid, wfail, dt)

append(format, openw_ok, valid, wfail, dt) ==
  write_format("append", format, TRUE, openw_ok, valid, wfail, dt)

(***************************************************************************)
(* Datafile::setFilename                                                   *)
(***************************************************************************)
\* void Datafile::setFilename(const char *format, ...)
setFilename(format) ==
  /\ op' = "setFilename"
  /\ ret' = 0
  /\ thrown' = ""
  /\ calls' = <<>>
  /\ output' = <<>>
  /\ def_filename' = IF format = NULL THEN "" ELSE vsprintf(format)
  /\ UNCHANGED <<registry, enabled, wtime, mem, disk>>

(***************************************************************************)
(* The backend handle: Datafile::Datafile, ~Datafile, setFormat,           *)
(* setLowPrecision                                                         *)
(***************************************************************************)
\* The null pointer of DataFormat*.
NoHandle == 0

\* DataFormat objects the caller creates in one run.
MaxHandles == 3
Handles == 1..MaxHandles

\* Entries a handle's log grows to.
MaxLog == 3

\* delete was invoked on the handle: the object is gone, a pointer to it
\* dangles.
Deleted(h) == \E k \in 1..Len(hlog[h]) : hlog[h][k] = "delete"

\* The log after an invocation on handle h.
Invoke(log, h, what) == [log EXCEPT ![h] = Append(@, what)]

\* if(file != NULL) delete file
DeleteFile == IF file # NoHandle THEN Invoke(hlog, file, "delete") ELSE hlog

\* The steps shared by the operations of this section: no registry, file
\* or caller state is touched.
HandleStep(name) ==
  /\ op' \in {name, "abort"}
  /\ ret' = 0
  /\ thrown' = ""
  /\ calls' = <<>>
  /\ output' = <<>>
  /\ UNCHANGED <<registry, def_filename, enabled, wtime, mem, disk>>

\* setFormat that does not pass low precision on to the new handle
setFormat_NoReapply(format) ==
  /\ HandleStep("setFormat")
  /\ file' = format
  /\ UNCHANGED low_prec
  /\ op' = "setFormat"
  /\ hlog' = DeleteFile

\* void Datafile::setFormat(DataFormat *format).  file->setLowPrecision()
\* through a null pointer aborts; through a pointer to a deleted object (the
\* handle held was passed again) it is undefined: the process aborts or the
\* call runs on the freed object.
setFormat(format) ==
  /\ HandleStep("setFormat")
  /\ file' = format
  /\ UNCHANGED low_prec
  /\ IF ~low_prec
     THEN op' = "setFormat" /\ hlog' = DeleteFile
     ELSE IF format = NoHandle
     THEN op' = "abort" /\ hlog' = DeleteFile
     ELSE IF format = file
     THEN hlog' \in {DeleteFile, Invoke(DeleteFile, format, "setLowPrecision")}
          /\ (op' = "abort" <=> hlog' = DeleteFile)
     ELSE op' = "setFormat" /\ hlog' = Invoke(DeleteFile, format, "setLowPrecision")

\* void Datafile::setLowPrecision()
setLowPrecision ==
  /\ HandleStep("setLowPrecision")
  /\ low_prec' = TRUE
  /\ UNCHANGED file
  /\ IF file = NoHandle
     THEN op' = "abort" /\ UNCHANGED hlog
     ELSE IF Deleted(file)
     THEN hlog' \in {hlog, Invoke(hlog, file, "setLowPrecision")}
          /\ (op' = "abort" <=> hlog' = hlog)
     ELSE op' = "setLowPrecision" /\ hlog' = Invoke(hlog, file, "setLowPrecision")

\* Datafile::~Datafile()
Destroy ==
  /\ HandleStep("~Datafile")
  /\ op' = "~Datafile"
  /\ hlog' = DeleteFile
  /\ UNCHANGED <<file, low_prec>>

(***************************************************************************)
(* The caller                                                              *)
(***************************************************************************)
AllBindings == int_arr \o BoutReal_arr \o f2d_arr \o f3d_arr \o v2d_arr \o v3d_arr

Bound(a) == \E k \in 1..Len(AllBindings) : AllBindings[k].ptr = a

\* A variable of the caller that no binding refers to yet.
Free(a, k) == a \in DOMAIN mem /\ mem[a].kind = k /\ ~Bound(a)

\* The caller defines a new variable; at most one is waiting to be registered.
Declare(k, x) ==
  /\ \A a \in DOMAIN mem : Bound(a)
  /\ Cardinality(DOMAIN mem) < Cardinality(Addr)
  /\ mem' = mem @@ ((Cardinality(DOMAIN mem) + 1) :> x)
  /\ op' = "declare"
  /\ ret' = 0
  /\ thrown' = ""
  /\ calls' = <<>>
  /\ output' = <<>>
  /\ UNCHANGED <<registry, def_filename, enabled, wtime, disk>>

\* The caller assigns to one of its registered variables.
Assign(a, x) ==
  /\ Bound(a)
  /\ x # mem[a]
  /\ mem' = [mem EXCEPT ![a] = x]
  /\ op' = "assign"
  /\ ret' = 0
  /\ thrown' = ""
  /\ calls' = <<>>
  /\ output' = <<>>
  /\ UNCHANGED <<registry, def_filename, enabled, wtime, disk>>

\* The caller sets the global Datafile::enabled.
SetEnabled(b) ==
  /\ b # enabled
  /\ enabled' = b
  /\ op' = "enable"
  /\ ret' = 0
  /\ thrown' = ""
  /\ calls' = <<>>
  /\ output' = <<>>
  /\ UNCHANGED <<registry, def_filename, wtime, mem, disk>>

(***************************************************************************)
(* Inputs of the read and write calls                                      *)
(***************************************************************************)
\* Records the model lets a key of the file grow to before the next append.
MaxRec == 2

\* Keys whose write the backend fails in one call, at most.
MaxWriteFail == 1

\* The component keys of a vector binding.
Suffix3(name, covar) ==
  IF covar THEN {name \o "_x", name \o "_y", name \o "_z"}
  ELSE {name \o "x", name \o "y", name \o "z"}

\* The backend keys the registry transfers.
Keys ==
  {AllBindings[k].name :
     k \in 1..(Len(int_arr) + Len(BoutReal_arr) + Len(f2d_arr) + Len(f3d_arr))}
  \cup UNION {Suffix3(v2d_arr[k].name, v2d_arr[k].covar) : k \in 1..Len(v2d_arr)}
  \cup UNION {Suffix3(v3d_arr[k].name, v3d_arr[k].covar) : k \in 1..Len(v3d_arr)}

\* Results of one open: <<open succeeded, is_valid>>.  is_valid is not asked
\* after a failed open, and the backend rejects an empty file name.
OpenResults(filename) ==
  IF filename = "" THEN {<<FALSE, FALSE>>}
  ELSE {<<FALSE, FALSE>>, <<TRUE, FALSE>>, <<TRUE, TRUE>>}

\* Keys the backend fails to read, for one result of the open; faulty
\* tells whether the backend of the run fails on single keys at all.
ReadFails(o, faulty) == IF o[1] /\ o[2] /\ faulty THEN SUBSET Keys ELSE {{}}

\* Keys the backend fails to write, for one result of the open.
WriteFails(o, faulty) ==
  IF o[1] /\ o[2] /\ enabled /\ faulty
  THEN {w \in SUBSET Keys : Cardinality(w) <= MaxWriteFail}
  ELSE {{}}

CanAppend == \A key \in DOMAIN disk : Len(disk[key]) < MaxRec

\* The value a write transfers for the variable at address a: the variable
\* itself, for a vector the converted copy.
Transferred(a) ==
  IF \E k \in 1..Len(v2d_arr) : v2d_arr[k].ptr = a
  THEN VectorCopy(v2d_arr[CHOOSE k \in 1..Len(v2d_arr) : v2d_arr[k].ptr = a])
  ELSE IF \E k \in 1..Len(v3d_arr) : v3d_arr[k].ptr = a
  THEN VectorCopy(v3d_arr[CHOOSE k \in 1..Len(v3d_arr) : v3d_arr[k].ptr = a])
  ELSE mem[a]

NoWrite == [ran |-> FALSE]

\* History of a write call with the given inputs: whether every backend
\* write succeeded, whether the file was empty when the loops began, the
\* values transferred and the number of bindings.
Written(app, o, wfail) ==
  IF enabled /\ o[1] /\ o[2]
  THEN [ran |-> TRUE, ok |-> wfail = {}, fresh |-> BackendOpenw(app) = <<>>,
        vals |-> [a \in DOMAIN mem |-> Transferred(a)], n |-> Len(AllBindings)]
  ELSE lastw

\* The store Datafile::Datafile(format) leaves: low_prec(false), file(NULL),
\* then setFormat(format); the registry is empty.
Constructed(format) ==
  /\ int_arr = <<>>
  /\ BoutReal_arr = <<>>
  /\ f2d_arr = <<>>
  /\ f3d_arr = <<>>
  /\ v2d_arr = <<>>
  /\ v3d_arr = <<>>
  /\ def_filename = ""
  /\ enabled = TRUE
  /\ wtime = 0
  /\ mem = <<>>
  /\ disk = <<>>
  /\ calls = <<>>
  /\ output = <<>>
  /\ op = "Datafile"
  /\ ret = 0
  /\ thrown = ""
  /\ ncalls = 0
  /\ lastw = NoWrite
  /\ file = format
  /\ low_prec = FALSE
  /\ hlog = [h \in Handles |-> <<>>]

\* A store constructed with a backend.
Init == Constructed(1)

\* The handle is set at construction and stays for the run.
HandleKept == UNCHANGED <<file, low_prec, hlog>>

(***************************************************************************)
(* SpecAdd: registration alone, every kind under every name                *)
(***************************************************************************)
NextAdd ==
  /\ \/ \E k \in Kinds : \E x \in InitVals(k) : Declare(k, x)
     \/ \E a \in Addr, n \in Names, g \in GrowArgs : Free(a, "int") /\ add_int(a, n, g)
     \/ \E a \in Addr, n \in Names, g \in GrowArgs : Free(a, "real") /\ add_real(a, n, g)
     \/ \E a \in Addr, n \in Names, g \in GrowArgs : Free(a, "f2d") /\ add_f2d(a, n, g)
     \/ \E a \in Addr, n \in Names, g \in GrowArgs : Free(a, "f3d") /\ add_f3d(a, n, g)
     \/ \E a \in Addr, n \in Names, g \in GrowArgs : Free(a, "v2d") /\ add_v2d(a, n, g)
     \/ \E a \in Addr, n \in Names, g \in GrowArgs : Free(a, "v3d") /\ add_v3d(a, n, g)
  /\ UNCHANGED <<ncalls, lastw>>
  /\ HandleKept

SpecAdd == Init /\ [][NextAdd]_vars

(***************************************************************************)
(* Spec: registration, then two reads or writes of the file "data.nc"      *)
(* with every outcome of the backend                                       *)
(***************************************************************************)
\* Names each kind is registered under: a vector is "v", so that a scalar
\* or field "vx" meets the x component key of a contravariant "v".
NamesOf(k) ==
  CASE k = "int" -> {"v", "vx"}
    [] k \in {"real", "f2d", "f3d"} -> {"vx"}
    [] k \in {"v2d", "v3d"} -> {"v"}

Grow01 == {0, 1}

Register(grows) ==
  \/ \E a \in Addr, n \in NamesOf("int"), g \in grows : Free(a, "int") /\ add_int(a, n, g)
  \/ \E a \in Addr, n \in NamesOf("real"), g \in grows : Free(a, "real") /\ add_real(a, n, g)
  \/ \E a \in Addr, n \in NamesOf("f2d"), g \in grows : Free(a, "f2d") /\ add_f2d(a, n, g)
  \/ \E a \in Addr, n \in NamesOf("f3d"), g \in grows : Free(a, "f3d") /\ add_f3d(a, n, g)
  \/ \E a \in Addr, n \in NamesOf("v2d"), g \in grows : Free(a, "v2d") /\ add_v2d(a, n, g)
  \/ \E a \in Addr, n \in NamesOf("v3d"), g \in grows : Free(a, "v3d") /\ add_v3d(a, n, g)

\* The variables are registered, and the global switch set, before the
\* first transfer; the caller assigns between the transfers.
Prepare(grows) ==
  /\ ncalls = 0
  /\ \/ \E k \in Kinds : \E x \in InitVals(k) : Declare(k, x)
     \/ Register(grows)
  /\ UNCHANGED <<ncalls, lastw>>
  /\ HandleKept

Switch ==
  /\ ncalls = 0
  /\ \E b \in BOOLEAN : SetEnabled(b)
  /\ UNCHANGED <<ncalls, lastw>>
  /\ HandleKept

Update(max) ==
  /\ 0 < ncalls /\ ncalls < max
  /\ \E a \in DOMAIN mem : \E x \in NewVals(mem[a]) : Assign(a, x)
  /\ UNCHANGED <<ncalls, lastw>>
  /\ HandleKept

Reads(results, faulty) ==
  \E o \in results : \E fail \in ReadFails(o, faulty) :
     /\ read(<<"data.nc">>, o[1], o[2], fail, 0)
     /\ UNCHANGED lastw
     /\ HandleKept

Writes(results, faulty) ==
  \E o \in results : \E wfail \in WriteFails(o, faulty) : \E app \in BOOLEAN :
     /\ app => CanAppend
     /\ write_file("data.nc", app, o[1], o[2], wfail, 0)
     /\ lastw' = Written(app, o, wfail)
     /\ HandleKept

\* Read and write calls of one run.
MaxCalls == 2

Next ==
  \/ Prepare(Grow01)
  \/ Switch
  \/ Update(MaxCalls)
  \/ /\ ncalls < MaxCalls
     /\ ncalls' = ncalls + 1
     /\ \/ Reads(OpenResults("data.nc"), TRUE)
        \/ Writes(OpenResults("data.nc"), TRUE)

Spec == Init /\ [][Next]_vars

(***************************************************************************)
(* SpecOk: registration, then three reads or writes that the backend       *)
(* carries out without failure                                             *)
(***************************************************************************)
MaxOkCalls == 3

NextOk ==
  \/ Prepare(Grow01)
  \/ Update(MaxOkCalls)
  \/ /\ ncalls < MaxOkCalls
     /\ ncalls' = ncalls + 1
     /\ \/ Reads({<<TRUE, TRUE>>}, FALSE)
        \/ Writes({<<TRUE, TRUE>>}, FALSE)

SpecOk == Init /\ [][NextOk]_vars

(***************************************************************************)
(* SpecPath: registration, the global switch and setFilename, then two     *)
(* calls of read, write or append with a null, an empty or a proper path   *)
(* template, or of write(filename, append)                                 *)
(***************************************************************************)
Formats == {NULL, <<"">>, <<"data.nc">>}

\* The file name the backend is given for a template.
FileOf(format) == IF format = NULL THEN "" ELSE vsprintf(format)

NextPath ==
  \/ Prepare(Grow01)
  \/ Switch
  \/ /\ ncalls = 0
     /\ \E format \in Formats : setFilename(format)
     /\ UNCHANGED <<ncalls, lastw>>
     /\ HandleKept
  \/ /\ ncalls < MaxCalls
     /\ ncalls' = ncalls + 1
     /\ UNCHANGED lastw
     /\ HandleKept
     /\ \/ \E format \in Formats : \E o \in OpenResults(FileOf(format)) :
             \/ read(format, o[1], o[2], {}, 0)
             \/ write(format, o[1], o[2], {}, 0)
             \/ CanAppend /\ append(format, o[1], o[2], {}, 0)
        \/ \E o \in OpenResults("data.nc") : \E app \in BOOLEAN :
             (app => CanAppend) /\ write_file("data.nc", app, o[1], o[2], {}, 0)

SpecPath == Init /\ [][NextPath]_vars

(***************************************************************************)
(* SpecFormat: a store constructed with or without a backend; the caller   *)
(* replaces the backend, asks for low precision, reads and writes, and     *)
(* destroys the store                                                      *)
(***************************************************************************)
InitFormat == \E format \in {NoHandle, 1} : Constructed(format)

\* The store is alive: not destroyed, the process not aborted.
Alive == op \notin {"~Datafile", "abort"}

\* Handles the caller may pass to setFormat: none, the one the store holds,
\* or the next DataFormat it creates.
NewHandles == {h \in Handles : h # file /\ hlog[h] = <<>>}
NextHandle == IF NewHandles = {} THEN {} ELSE {CHOOSE h \in NewHandles : \A g \in NewHandles : h <= g}

\* read and write go through the handle: the caller makes them while the
\* store holds a live one.
Usable == file # NoHandle /\ ~Deleted(file)

NextFormat ==
  \/ /\ Alive
     /\ \E format \in {NoHandle, file} \cup NextHandle :
          /\ format # NoHandle => Len(hlog[format]) + 2 <= MaxLog
          /\ setFormat(format)
     /\ UNCHANGED <<ncalls, lastw>>
  \/ /\ Alive
     /\ file # NoHandle => Len(hlog[file]) < MaxLog
     /\ setLowPrecision
     /\ UNCHANGED <<ncalls, lastw>>
  \/ /\ Alive
     /\ Destroy
     /\ UNCHANGED <<ncalls, lastw>>
  \/ /\ Alive
     /\ Usable
     /\ ncalls < MaxCalls
     /\ ncalls' = ncalls + 1
     /\ UNCHANGED lastw
     /\ HandleKept
     /\ \E o \in OpenResults("data.nc") :
          \/ read(<<"data.nc">>, o[1], o[2], {}, 0)
          \/ \E app \in BOOLEAN : write_file("data.nc", app, o[1], o[2], {}, 0)

SpecFormat == InitFormat /\ [][NextFormat]_vars

(***************************************************************************)
(* SpecTime: registration, then two reads or writes with every outcome of  *)
(* the backend, each taking no time or one tick of the clock               *)
(***************************************************************************)
\* Ticks of MPI_Wtime one call may take.
MaxTick == 1

NextTime ==
  \/ Prepare({0})
  \/ Switch
  \/ /\ ncalls < MaxCalls
     /\ ncalls' = ncalls + 1
     /\ HandleKept
     /\ \E dt \in 0..MaxTick : \E o \in OpenResults("data.nc") :
          \/ /\ \E fail \in ReadFails(o, TRUE) : read(<<"data.nc">>, o[1], o[2], fail, dt)
             /\ UNCHANGED lastw
          \/ \E wfail \in WriteFails(o, TRUE) :
               /\ write_file("data.nc", FALSE, o[1], o[2], wfail, dt)
               /\ lastw' = Written(FALSE, o, wfail)

SpecTime == Init /\ [][NextTime]_vars

(***************************************************************************)
(* SpecOrder: two variables registered in either order, vectors as "v" or  *)
(* "v_", assignments of the caller, then reads and writes that the         *)
(* backend carries out without failure                                     *)
(***************************************************************************)
\* Names each kind is registered under: the covariant keys of a vector "v"
\* are the contravariant keys of a vector "v_".
NamesIn(k) == IF k \in {"v2d", "v3d"} THEN {"v", "v_"} ELSE {"vx"}

NextOrder ==
  \/ /\ ncalls = 0
     /\ \/ \E k \in Kinds : \E x \in InitVals(k) : Declare(k, x)
        \/ \E a \in Addr, n \in NamesIn("int") : Free(a, "int") /\ add_int(a, n, 0)
        \/ \E a \in Addr, n \in NamesIn("real") : Free(a, "real") /\ add_real(a, n, 0)
        \/ \E a \in Addr, n \in NamesIn("f2d") : Free(a, "f2d") /\ add_f2d(a, n, 0)
        \/ \E a \in Addr, n \in NamesIn("f3d") : Free(a, "f3d") /\ add_f3d(a, n, 0)
        \/ \E a \in Addr, n \in NamesIn("v2d"), g \in Grow01 : Free(a, "v2d") /\ add_v2d(a, n, g)
        \/ \E a \in Addr, n \in NamesIn("v3d"), g \in Grow01 : Free(a, "v3d") /\ add_v3d(a, n, g)
     /\ UNCHANGED <<ncalls, lastw>>
     /\ HandleKept
  \/ /\ ncalls = 0
     /\ \E a \in DOMAIN mem : \E x \in NewVals(mem[a]) : Assign(a, x)
     /\ UNCHANGED <<ncalls, lastw>>
     /\ HandleKept
  \/ /\ ncalls < MaxCalls
     /\ ncalls' = ncalls + 1
     /\ \/ Reads({<<TRUE, TRUE>>}, FALSE)
        \/ Writes({<<TRUE, TRUE>>}, FALSE)

SpecOrder == Init /\ [][NextOrder]_vars

(***************************************************************************)
(* Properties                                                              *)
(***************************************************************************)
\* The names registered, over the six sequences.
RegNames == {AllBindings[k].name : k \in 1..Len(AllBindings)}

\* A call of one of the six add overloads on a variable of its kind.
AddCall(a, n, g) ==
  \/ Free(a, "int") /\ add_int(a, n, g)
  \/ Free(a, "real") /\ add_real(a, n, g)
  \/ Free(a, "f2d") /\ add_f2d(a, n, g)
  \/ Free(a, "f3d") /\ add_f3d(a, n, g)
  \/ Free(a, "v2d") /\ add_v2d(a, n, g)
  \/ Free(a, "v3d") /\ add_v3d(a, n, g)

\* C1: an add whose name is already present in any of the six sequences
\* throws the exception carrying that name and leaves the six sequences as
\* they were; an add of a new name appends one binding; hence no name is
\* ever registered twice.
C1_Uniqueness ==
  /\ [](Cardinality(RegNames) = Len(AllBindings))
  /\ [][\A a \in Addr, n \in Names, g \in GrowArgs :
          AddCall(a, n, g) =>
            IF n \in RegNames
            THEN thrown' = n /\ registry' = registry
            ELSE /\ thrown' = ""
                 /\ Len(AllBindings') = Len(AllBindings) + 1
                 /\ RegNames' = RegNames \cup {n}]_vars

\* An int is refused under the name a Vector3D holds.
C1_Witness ==
  /\ op = "add"
  /\ thrown = "v"
  /\ Len(AllBindings) = 1
  /\ Len(v3d_arr) = 1
  /\ v3d_arr[1].name = "v"
  /\ \E a \in DOMAIN mem : ~Bound(a) /\ mem[a].kind = "int"

\* C2: while the global switch is off, write(filename, append) returns
\* true without invoking a backend primitive and leaves the file as it is,
\* whatever the registry holds and for either append flag; write(format) and
\* append(format), called with a path template, then return 0 (success).
C2_DisabledWrite ==
  [][~enabled =>
       /\ op' = "write_file" => ret' = TRUE /\ calls' = <<>> /\ disk' = disk
       /\ \A format \in Formats \ {NULL} : \A o \in OpenResults(FileOf(format)) :
            (write(format, o[1], o[2], {}, 0) \/ append(format, o[1], o[2], {}, 0))
              => ret' = 0 /\ calls' = <<>> /\ disk' = disk]_vars

\* Both calls of a run were writes of two registered variables made while
\* the switch was off, the last one write(filename, append).
C2_Witness ==
  /\ ~enabled
  /\ op = "write_file"
  /\ ret = TRUE
  /\ calls = <<>>
  /\ ncalls = MaxCalls
  /\ Len(AllBindings) = 2

\* C9 as stated: read, write and append given a null or an empty path
\* template return failure without invoking a backend primitive, and
\* setFilename given one invokes none.  (setFilename returns nothing, so of
\* it only the backend part is stated.)
C9_NullOrEmptyPath ==
  [][\A format \in {NULL, <<"">>} :
       /\ \A o \in OpenResults(FileOf(format)) :
            (\/ read(format, o[1], o[2], {}, 0)
             \/ write(format, o[1], o[2], {}, 0)
             \/ append(format, o[1], o[2], {}, 0))
              => ret' = 1 /\ calls' = <<>>
       /\ setFilename(format) => calls' = <<>>]_vars

\* C9 amended: read, write and append given a null path template return 1
\* without invoking a backend primitive and change neither the file nor a
\* target; setFilename invokes no backend primitive and stores the formatted
\* name, the empty name for a null template; an empty template is not
\* refused: read passes the empty name to openr, write and append pass it
\* to openw, unless the switch is off, when they return 0.
C9_NullPath ==
  [][/\ \A o \in OpenResults("") :
          (\/ read(NULL, o[1], o[2], {}, 0)
           \/ write(NULL, o[1], o[2], {}, 0)
           \/ append(NULL, o[1], o[2], {}, 0))
            => ret' = 1 /\ calls' = <<>> /\ disk' = disk /\ mem' = mem
     /\ \A format \in Formats :
          setFilename(format) =>
            /\ calls' = <<>>
            /\ disk' = disk
            /\ def_filename' = IF format = NULL THEN "" ELSE format[1]
     /\ \A o \in OpenResults("") :
          /\ read(<<"">>, o[1], o[2], {}, 0) =>
               Len(calls') >= 1 /\ calls'[1].prim = "openr" /\ calls'[1].arg = ""
          /\ (write(<<"">>, o[1], o[2], {}, 0) \/ append(<<"">>, o[1], o[2], {}, 0)) =>
               IF enabled
               THEN Len(calls') >= 1 /\ calls'[1].prim = "openw" /\ calls'[1].arg = ""
               ELSE ret' = 0 /\ calls' = <<>>]_vars

\* write or append given a null template failed without a backend call,
\* while the file holds the data of an earlier write.
C9_Witness ==
  /\ op \in {"write", "append"}
  /\ ret = 1
  /\ calls = <<>>
  /\ disk # <<>>
  /\ Len(AllBindings) = 2

\* Bindings of the four scalar and field sequences; the vector bindings
\* follow them in AllBindings.
NScalar == Len(int_arr) + Len(BoutReal_arr)
NScalarField == NScalar + Len(f2d_arr) + Len(f3d_arr)

\* The per-binding backend calls of the last read or write: those between
\* setRecord and close.
Transfers == SubSeq(calls, 4, Len(calls) - 1)

Failed(c) == ~c.res

\* The value the file holds for a key: its only value, or its latest record.
Stored(key, grow) == IF grow THEN disk[key][Len(disk[key])] ELSE disk[key][1]

\* The kind a warning names for the k-th scalar or field binding.
WhatOf(k) ==
  IF k <= Len(int_arr) THEN "integer"
  ELSE IF k <= NScalar THEN "BoutReal"
  ELSE IF k <= NScalar + Len(f2d_arr) THEN "2D field"
  ELSE "3D field"

\* C3: after a read whose open and validation succeeded, every scalar and
\* field binding was read under its name; a target whose read failed is
\* zero (a field: allocated, uniform zero), a target whose read succeeded
\* holds the value of the file; no binding was left out; and the warnings
\* logged are, in order, one for each failed backend read, naming its key
\* and, for a scalar or field, its kind.
C3_Isolation ==
  (op = "read" /\ ret = 0) =>
    /\ Len(Transfers) = NScalarField + 3 * (Len(v2d_arr) + Len(v3d_arr))
    /\ \A k \in 1..NScalarField :
         LET b == AllBindings[k]
             c == Transfers[k]
         IN /\ c.arg = b.name
            /\ IF k <= NScalar
               THEN mem[b.ptr].val = IF c.res THEN Stored(b.name, b.grow) ELSE 0
               ELSE mem[b.ptr].fld = Fld(IF c.res THEN Stored(b.name, b.grow) ELSE 0)
            /\ Failed(c) => \E j \in 1..Len(output) : output[j] = Warning(WhatOf(k), b.name)
    /\ Len(output) = Len(SelectSeq(Transfers, Failed))
    /\ \A j \in 1..Len(output) : output[j].name = SelectSeq(Transfers, Failed)[j].arg

\* Of two scalars or fields the first failed to read and is zero, with the
\* one warning of the read, and the second holds a nonzero value of the file.
C3_Witness ==
  /\ op = "read"
  /\ ret = 0
  /\ NScalarField = 2
  /\ Len(AllBindings) = 2
  /\ Failed(Transfers[1])
  /\ ~Failed(Transfers[2])
  /\ Len(output) = 1
  /\ Stored(AllBindings[2].name, AllBindings[2].grow) # 0

\* C4: read, given a path, returns 1 exactly when openr or is_valid returned
\* false, and write(filename, append), with the switch on, returns false
\* exactly when openw or is_valid returned false; failed reads or writes of
\* single variables and skipped fields do not change the result.
C4_Status ==
  /\ op = "read" =>
       /\ ret \in {0, 1}
       /\ ret = 1 <=> (~calls[1].res \/ (Len(calls) >= 2 /\ ~calls[2].res))
  /\ (op = "write_file" /\ enabled) =>
       /\ ret \in BOOLEAN
       /\ ret = FALSE <=> (~calls[1].res \/ (Len(calls) >= 2 /\ ~calls[2].res))

\* A write returned true although, of two registered variables, the
\* backend failed to write one and the other, an unallocated field, was
\* skipped.
C4_Witness ==
  /\ op = "write_file"
  /\ enabled
  /\ ret = TRUE
  /\ NScalarField = 2
  /\ Len(AllBindings) = 2
  /\ Len(Transfers) = 1
  /\ Failed(Transfers[1])

\* The key of component c of a vector registered under name.
CompKey(name, covar, c) == name \o (IF covar THEN "_" ELSE "") \o c

\* The keys read for the k-th binding, and the keys written for it
\* (unallocated fields and components are not written).
ReadKeys(k) ==
  LET b == AllBindings[k]
  IN IF k <= NScalarField THEN <<b.name>>
     ELSE <<CompKey(b.name, b.covar, "x"), CompKey(b.name, b.covar, "y"),
            CompKey(b.name, b.covar, "z")>>

WriteKeys(k) ==
  LET b == AllBindings[k]
      x == mem[b.ptr]
      If(f, key) == IF f.alloc THEN <<key>> ELSE <<>>
  IN IF k <= NScalar THEN <<b.name>>
     ELSE IF k <= NScalarField THEN If(x.fld, b.name)
     ELSE If(x.x, CompKey(b.name, b.covar, "x")) \o If(x.y, CompKey(b.name, b.covar, "y"))
          \o If(x.z, CompKey(b.name, b.covar, "z"))

AllReadKeys ==
  LET F[k \in 0..Len(AllBindings)] == IF k = 0 THEN <<>> ELSE F[k-1] \o ReadKeys(k)
  IN F[Len(AllBindings)]

AllWriteKeys ==
  LET F[k \in 0..Len(AllBindings)] == IF k = 0 THEN <<>> ELSE F[k-1] \o WriteKeys(k)
  IN F[Len(AllBindings)]

\* C5: the keys a read passes to the backend are, for every vector binding
\* of name n, n_x, n_y, n_z when the binding is covariant and nx, ny, nz
\* when it is contravariant, in this order, and a write passes the same keys
\* for the allocated components; the keys follow the covariance recorded in
\* the binding, in read and in write alike.
C5_VectorKeys ==
  /\ (op = "read" /\ ret = 0) =>
       /\ Len(Transfers) = Len(AllReadKeys)
       /\ \A j \in 1..Len(Transfers) : Transfers[j].arg = AllReadKeys[j]
  /\ (op = "write_file" /\ enabled /\ ret = TRUE) =>
       /\ Len(Transfers) = Len(AllWriteKeys)
       /\ \A j \in 1..Len(Transfers) : Transfers[j].arg = AllWriteKeys[j]

\* A contravariant Vector2D "v" was written and is read back under vx, vy,
\* vz, beside a second variable.
C5_Witness ==
  /\ op = "read"
  /\ ret = 0
  /\ lastw.ran
  /\ Len(AllBindings) = 2
  /\ Len(v2d_arr) = 1
  /\ ~v2d_arr[1].covar
  /\ {Transfers[j].arg : j \in 2..4} = {"vx", "vy", "vz"}
  /\ \A j \in 2..4 : ~Failed(Transfers[j])

\* C10: a call of write(filename, append) leaves every variable of the
\* caller as it was, with every outcome of the call: scalars, fields and
\* their allocation, the components of the vectors and their basis flags.
C10_WriteFrame == [][op' = "write_file" => mem' = mem]_vars

\* A write transferred a vector whose basis flag differs from the basis
\* recorded in its binding, so a converted copy was written.
C10_Witness ==
  /\ op = "write_file"
  /\ ret = TRUE
  /\ calls # <<>>
  /\ \E k \in 1..Len(v3d_arr) :
       /\ v3d_arr[k].covar # mem[v3d_arr[k].ptr].covariant
       /\ mem[v3d_arr[k].ptr].x.alloc
       /\ \E j \in 1..Len(Transfers) : Transfers[j].arg = CompKey(v3d_arr[k].name, v3d_arr[k].covar, "x")

\* The fields the registry transfers: the registered fields and the three
\* components of the registered vectors, each with its key, the address of
\* its variable and its place in it, and the grow flag of its binding.
Slots ==
  {[key |-> AllBindings[k].name, ptr |-> AllBindings[k].ptr, comp |-> "fld",
    grow |-> AllBindings[k].grow] : k \in (NScalar + 1)..NScalarField}
  \cup {[key |-> CompKey(AllBindings[k].name, AllBindings[k].covar, c),
         ptr |-> AllBindings[k].ptr, comp |-> c, grow |-> AllBindings[k].grow] :
          k \in (NScalarField + 1)..Len(AllBindings), c \in {"x", "y", "z"}}

\* The last write passed key to a backend write primitive.
WroteKey(key) ==
  \E j \in 1..Len(Transfers) :
     Transfers[j].arg = key /\ Transfers[j].prim \in {"write", "write_rec"}

\* C6: a write that returns true invokes no backend write primitive for the
\* name of an unallocated field or vector component, so that, the file
\* being new, the file has no entry of that name, and it writes every scalar
\* and every allocated field and component; a read that follows on the same
\* file returns 0 and leaves the field or component allocated and zero,
\* with a warning naming it.
C6_UnallocatedSkip ==
  /\ (op = "write_file" /\ ret = TRUE /\ calls # <<>>) =>
       /\ \A s \in Slots :
            IF mem[s.ptr][s.comp].alloc
            THEN WroteKey(s.key)
            ELSE ~WroteKey(s.key) /\ (lastw.fresh => s.key \notin DOMAIN disk)
       /\ \A k \in 1..NScalar : WroteKey(AllBindings[k].name)
  /\ (op = "read" /\ lastw.ran /\ lastw.fresh) =>
       /\ ret = 0
       /\ \A s \in Slots :
            ~lastw.vals[s.ptr][s.comp].alloc =>
               /\ mem[s.ptr][s.comp] = Fld(0)
               /\ \E j \in 1..Len(output) : output[j].name = s.key

\* C7: a read that follows a write of scalars, allocated fields and vectors
\* with allocated components to a new file, with the same registrations,
\* logs no warning and leaves every target equal to the value written, a
\* vector with the basis flag of its binding.
C7_RoundTrip ==
  (/\ op = "read"
   /\ ret = 0
   /\ lastw.ran
   /\ lastw.ok
   /\ lastw.fresh
   /\ \A s \in Slots : lastw.vals[s.ptr][s.comp].alloc) =>
    /\ output = <<>>
    /\ \A k \in 1..Len(AllBindings) :
         mem[AllBindings[k].ptr] = lastw.vals[AllBindings[k].ptr]
    /\ \A k \in (NScalarField + 1)..Len(AllBindings) :
         mem[AllBindings[k].ptr].covariant = AllBindings[k].covar

\* C8: after one or more writes to the same file, a read leaves in the
\* target of every binding registered with grow the value the last of the
\* writes wrote for it.
C8_GrowLatest ==
  (op = "read" /\ ret = 0 /\ lastw.ran /\ lastw.ok) =>
    /\ \A k \in 1..NScalar :
         AllBindings[k].grow =>
           mem[AllBindings[k].ptr].val = lastw.vals[AllBindings[k].ptr].val
    /\ \A s \in Slots :
         (s.grow /\ lastw.vals[s.ptr][s.comp].alloc) =>
           mem[s.ptr][s.comp] = lastw.vals[s.ptr][s.comp]

\* The store invoked what on handle h, and how often.
Invoked(h, what) == \E k \in 1..Len(hlog[h]) : hlog[h][k] = what
Count(h, what) == Cardinality({k \in 1..Len(hlog[h]) : hlog[h][k] = what})

\* C11: low_prec, once set, stays set; while the store lives with low_prec
\* set, setLowPrecision has been invoked on the handle it holds, and it was
\* invoked before the store opens that handle in a read or write; a store
\* whose setLowPrecision was never called has invoked it on no handle.
C11_LowPrecisionSticky ==
  /\ []((Alive /\ low_prec /\ file # NoHandle) => Invoked(file, "setLowPrecision"))
  /\ [](~low_prec => \A h \in Handles : ~Invoked(h, "setLowPrecision"))
  /\ [][/\ low_prec => low_prec'
        /\ (low_prec /\ calls' # <<>> /\ calls'[1].prim \in {"openr", "openw"}) =>
              Invoked(file, "setLowPrecision")]_vars

\* Low precision was asked for on handle 1; handles 2 and 3 were installed
\* later and the store has opened handle 3, on which setLowPrecision is the
\* one invocation so far.
C11_Witness ==
  /\ Alive
  /\ low_prec
  /\ file = 3
  /\ hlog[3] = <<"setLowPrecision">>
  /\ hlog[1] = <<"setLowPrecision", "delete">>
  /\ Invoked(2, "setLowPrecision")
  /\ calls # <<>>
  /\ calls[1].res

\* C12: setFormat leaves the store holding the handle it was passed; while
\* the store lives, delete has been invoked exactly once on every handle it
\* held before and never on the handle it holds, also after setFormat was
\* passed the handle already held; after the destructor delete has been
\* invoked exactly once on every handle the store ever held.
C12_Ownership ==
  /\ [](op # "~Datafile" =>
          /\ file # NoHandle => Count(file, "delete") = 0
          /\ \A h \in Handles \ {file} : hlog[h] # <<>> => Count(h, "delete") = 1)
  /\ [](op = "~Datafile" =>
          \A h \in Handles : (h = file \/ hlog[h] # <<>>) => Count(h, "delete") = 1)
  /\ [][\A format \in {NoHandle} \cup Handles : setFormat(format) => file' = format]_vars

\* The open or the validation of the last read or write failed.
Aborted == calls # <<>> /\ (~calls[1].res \/ (Len(calls) >= 2 /\ ~calls[2].res))

\* C13: a read or write whose open fails, or whose backend is_valid reports
\* invalid, returns failure having invoked neither setRecord nor a read or
\* write primitive, logs no warning and changes no variable of the caller;
\* close is invoked in a call only if its open succeeded.
C13_Abort ==
  /\ []((op \in {"read", "write_file"} /\ Aborted) =>
          /\ ret = IF op = "read" THEN 1 ELSE FALSE
          /\ output = <<>>
          /\ \A k \in 1..Len(calls) :
               calls[k].prim \notin {"setRecord", "read", "read_rec", "write", "write_rec"})
  /\ [](\A k \in 1..Len(calls) : calls[k].prim = "close" => calls[1].res)
  /\ [][(op' \in {"read", "write_file"} /\ calls' # <<>>
         /\ (~calls'[1].res \/ (Len(calls') >= 2 /\ ~calls'[2].res))) => mem' = mem]_vars

\* A read found the opened file invalid and returned 1; the file holds other
\* values, written earlier, than the registered variables do now.
C13_Witness ==
  /\ op = "read"
  /\ ret = 1
  /\ Len(calls) = 2
  /\ calls[1].res
  /\ lastw.ran
  /\ \E k \in 1..Len(AllBindings) :
        mem[AllBindings[k].ptr] # lastw.vals[AllBindings[k].ptr]

\* The last call was a read or write that opened and validated its file.
Completed == op \in {"read", "write_file"} /\ calls # <<>> /\ ~Aborted

\* C14: a read or an enabled write whose open and validation succeed invokes
\* the open first, then is_valid, then setRecord(-1), then only transfer
\* primitives, and close last, each of the four once; a read reaches close
\* having made a transfer for every binding, however many of them fail; the
\* clock total wtime changes only in a call that has invoked close.
C14_PrimitiveOrder ==
  /\ [](Completed =>
          /\ Len(calls) >= 4
          /\ calls[1].prim = IF op = "read" THEN "openr" ELSE "openw"
          /\ calls[2].prim = "is_valid"
          /\ calls[3] = Call("setRecord", "-1", TRUE)
          /\ calls[Len(calls)].prim = "close"
          /\ \A k \in 4..(Len(calls) - 1) :
               calls[k].prim \in IF op = "read" THEN {"read", "read_rec"}
                                 ELSE {"write", "write_rec"}
          /\ op = "read" =>
               Len(calls) = 4 + NScalarField + 3 * (Len(v2d_arr) + Len(v3d_arr)))
  /\ [][wtime' # wtime =>
          /\ wtime' > wtime
          /\ op' \in {"read", "write_file"}
          /\ calls' # <<>>
          /\ calls'[Len(calls')].prim = "close"]_vars

\* Both calls of the run took a tick; the last one, a read, reached close
\* although two of its transfers failed.
C14_Witness ==
  /\ op = "read"
  /\ ret = 0
  /\ wtime = 2
  /\ Len(output) >= 2
  /\ calls[Len(calls)].prim = "close"

\* The keys of the bindings of one sequence, in its order: of scalars, of
\* fields and of vectors (x, y, z); a write (wr) leaves out the fields and
\* components that are not allocated.
ScalarKeys(arr) == [k \in 1..Len(arr) |-> arr[k].name]

FieldKeys(arr, wr) ==
  LET F[k \in 0..Len(arr)] ==
        IF k = 0 THEN <<>>
        ELSE F[k-1] \o (IF wr /\ ~mem[arr[k].ptr].fld.alloc THEN <<>> ELSE <<arr[k].name>>)
  IN F[Len(arr)]

VectorKeys(arr, wr) ==
  LET One(b, c) == IF wr /\ ~mem[b.ptr][c].alloc THEN <<>>
                   ELSE <<b.name \o (IF b.covar THEN "_" ELSE "") \o c>>
      F[k \in 0..Len(arr)] ==
        IF k = 0 THEN <<>>
        ELSE F[k-1] \o One(arr[k], "x") \o One(arr[k], "y") \o One(arr[k], "z")
  IN F[Len(arr)]

KindOrder(wr) ==
  ScalarKeys(int_arr) \o ScalarKeys(BoutReal_arr) \o FieldKeys(f2d_arr, wr)
  \o FieldKeys(f3d_arr, wr) \o VectorKeys(v2d_arr, wr) \o VectorKeys(v3d_arr, wr)

\* Variables get their addresses in the order the caller defines them, and
\* each is registered before the next is defined: within a sequence the
\* bindings stand in the order of their add calls.
InAddOrder(arr) == \A j, k \in 1..Len(arr) : j < k => arr[j].ptr < arr[k].ptr

\* C15: every sequence keeps its bindings in the order they were added; a
\* read transfers the ints, then the reals, the 2D fields, the 3D fields,
\* the 2D vectors and the 3D vectors, each kind in the order of its
\* sequence and a vector as x, y, z, whatever the order the kinds were
\* added in; a write visits the bindings in the same order.
C15_KindOrder ==
  /\ InAddOrder(int_arr) /\ InAddOrder(BoutReal_arr) /\ InAddOrder(f2d_arr)
  /\ InAddOrder(f3d_arr) /\ InAddOrder(v2d_arr) /\ InAddOrder(v3d_arr)
  /\ Completed =>
       /\ Len(Transfers) = Len(KindOrder(op = "write_file"))
       /\ \A j \in 1..Len(Transfers) : Transfers[j].arg = KindOrder(op = "write_file")[j]

\* A Vector3D was added before an int, and the read transferred the int
\* first, then the vector's x, y and z under the covariant keys.
C15_Witness ==
  /\ op = "read"
  /\ ret = 0
  /\ Len(int_arr) = 1
  /\ Len(v3d_arr) = 1
  /\ v3d_arr[1].ptr < int_arr[1].ptr
  /\ [j \in 1..4 |-> Transfers[j].arg] = <<"vx", "v_x", "v_y", "v_z">>

\* What a write passes to the backend for the bindings of one sequence, in
\* the order given: key, value and grow flag.
ScalarItems(arr) ==
  [k \in 1..Len(arr) |->
     [key |-> arr[k].name, val |-> mem[arr[k].ptr].val, grow |-> arr[k].grow]]

FieldItem(key, f, grow) ==
  IF f.alloc THEN <<[key |-> key, val |-> f.data, grow |-> grow]>> ELSE <<>>

FieldItems(arr) ==
  LET F[k \in 0..Len(arr)] ==
        IF k = 0 THEN <<>>
        ELSE F[k-1] \o FieldItem(arr[k].name, mem[arr[k].ptr].fld, arr[k].grow)
  IN F[Len(arr)]

VectorItems(arr) ==
  LET F[k \in 0..Len(arr)] ==
        IF k = 0 THEN <<>>
        ELSE LET b == arr[k]
                 v == VectorCopy(b)
             IN F[k-1] \o FieldItem(CompKey(b.name, b.covar, "x"), v.x, b.grow)
                       \o FieldItem(CompKey(b.name, b.covar, "y"), v.y, b.grow)
                       \o FieldItem(CompKey(b.name, b.covar, "z"), v.z, b.grow)
  IN F[Len(arr)]

\* The content of a new file after the items were written in their order.
Store(items) ==
  LET F[k \in 0..Len(items)] ==
        IF k = 0 THEN <<>>
        ELSE IF items[k].grow THEN BackendWriteRec(F[k-1], items[k].key, items[k].val)
        ELSE BackendWrite(F[k-1], items[k].key, items[k].val)
  IN F[Len(items)]

\* The orders the bindings of one sequence can have been added in.
Reverse(arr) == [k \in 1..Len(arr) |-> arr[Len(arr) + 1 - k]]
Orders(arr) == {arr, Reverse(arr)}

\* C16: the file a write to a new file leaves is the file a store holding
\* the same bindings, added in any other order, leaves; and a read leaves in
\* every target what the file holds under the keys of its own binding,
\* whatever the order of the bindings.
C16_OrderIrrelevant ==
  /\ (op = "write_file" /\ Completed /\ lastw.fresh) =>
       \A i \in Orders(int_arr), r \in Orders(BoutReal_arr), f2 \in Orders(f2d_arr),
          f3 \in Orders(f3d_arr), v2 \in Orders(v2d_arr), v3 \in Orders(v3d_arr) :
          disk = Store(ScalarItems(i) \o ScalarItems(r) \o FieldItems(f2)
                       \o FieldItems(f3) \o VectorItems(v2) \o VectorItems(v3))
  /\ (op = "read" /\ Completed) =>
       /\ \A k \in 1..NScalar :
            mem[AllBindings[k].ptr].val =
              IF AllBindings[k].name \in DOMAIN disk
              THEN Stored(AllBindings[k].name, AllBindings[k].grow) ELSE 0
       /\ \A sl \in Slots :
            mem[sl.ptr][sl.comp] =
              Fld(IF sl.key \in DOMAIN disk THEN Stored(sl.key, sl.grow) ELSE 0)

\* The vector bindings, as places in AllBindings, and the place in
\* Transfers of the first component of the k-th binding.
VectorBindings == (NScalarField + 1)..Len(AllBindings)
FirstTransfer(k) == NScalarField + 3 * (k - NScalarField - 1) + 1

\* C17: after a read whose open and validation succeeded, the basis flag of
\* every registered vector is the covariance recorded by add, whatever the
\* flag was before and whether or not component reads failed, and every
\* component holds the value of the file under its key as stored, without
\* conversion of basis, or zero where its read failed.
C17_ReadSetsBasis ==
  (op = "read" /\ ret = 0) =>
    \A k \in VectorBindings :
       LET b == AllBindings[k]
       IN /\ mem[b.ptr].covariant = b.covar
          /\ \A j \in 1..3 :
               LET t == Transfers[FirstTransfer(k) + j - 1]
               IN /\ t.arg = CompKey(b.name, b.covar, <<"x", "y", "z">>[j])
                  /\ mem[b.ptr][<<"x", "y", "z">>[j]] =
                       Fld(IF t.res THEN Stored(t.arg, b.grow) ELSE 0)

\* A read returned 0 with a registered vector whose x component failed to
\* read and is zero, whose y component holds a nonzero value of the file,
\* and whose flag is the covariance of its binding.
C17_Witness ==
  /\ op = "read"
  /\ ret = 0
  /\ \E k \in VectorBindings :
       LET b == AllBindings[k]
       IN /\ mem[b.ptr].covariant = b.covar
          /\ Failed(Transfers[FirstTransfer(k)])
          /\ mem[b.ptr].x = Fld(0)
          /\ ~Failed(Transfers[FirstTransfer(k) + 1])
          /\ mem[b.ptr].y # Fld(0)

\* The grow flag behind every key of AllReadKeys and of AllWriteKeys.
Repeat(n, x) == [j \in 1..n |-> x]

AllReadGrows ==
  LET F[k \in 0..Len(AllBindings)] ==
        IF k = 0 THEN <<>>
        ELSE F[k-1] \o Repeat(Len(ReadKeys(k)), AllBindings[k].grow)
  IN F[Len(AllBindings)]

AllWriteGrows ==
  LET F[k \in 0..Len(AllBindings)] ==
        IF k = 0 THEN <<>>
        ELSE F[k-1] \o Repeat(Len(WriteKeys(k)), AllBindings[k].grow)
  IN F[Len(AllBindings)]

\* Every transfer of the last read or write used the primitive of the grow
\* flag of its binding.
PrimitiveByGrow ==
  /\ (op = "read" /\ ret = 0) =>
       /\ Len(Transfers) = Len(AllReadGrows)
       /\ \A j \in 1..Len(Transfers) :
            Transfers[j].prim = IF AllReadGrows[j] THEN "read_rec" ELSE "read"
  /\ (op = "write_file" /\ enabled /\ ret = TRUE) =>
       /\ Len(Transfers) = Len(AllWriteGrows)
       /\ \A j \in 1..Len(Transfers) :
            Transfers[j].prim = IF AllWriteGrows[j] THEN "write_rec" ELSE "write"

\* C18: an add with grow > 0 records a binding in record mode and an add
\* with grow <= 0 one in plain mode; no step changes a recorded binding; and
\* every read and every write transfers each scalar, field and vector
\* component with read_rec / write_rec when its binding is in record mode
\* and with read / write when it is not.
C18_GrowSelectsPrimitive ==
  [][/\ \A a \in Addr, n \in Names, g \in GrowArgs :
          (AddCall(a, n, g) /\ thrown' = "") =>
             \E k \in 1..Len(AllBindings') :
                AllBindings'[k].ptr = a /\ AllBindings'[k].grow = (g > 0)
     /\ \A i \in 1..6 : \A k \in 1..Len(registry[i]) :
          Len(registry'[i]) >= k /\ registry'[i][k] = registry[i][k]
     /\ PrimitiveByGrow']_vars

\* A read that followed a write transferred one binding in record mode
\* with read_rec and one in plain mode with read.
C18_Witness ==
  /\ op = "read"
  /\ ret = 0
  /\ lastw.ran
  /\ \E j, k \in 1..Len(Transfers) :
       /\ AllReadGrows[j] /\ Transfers[j].prim = "read_rec"
       /\ ~AllReadGrows[k] /\ Transfers[k].prim = "read"

\* C19: when a read or a write returns, the backend is closed: if the open
\* of the call (openr, openw) succeeded, the last backend call of the call
\* is close, also when is_valid reported the backend invalid.
C19_NoOpenBackend ==
  (op \in {"read", "write_file"} /\ calls # <<>> /\ calls[1].res) =>
     calls[Len(calls)].prim = "close"

\* C20: the backend keys of the registered bindings, a scalar or field its
\* name and a vector its three component keys, are pairwise distinct: no
\* key belongs to two bindings.
C20_DisjointKeys ==
  Cardinality({AllReadKeys[j] : j \in 1..Len(AllReadKeys)}) = Len(AllReadKeys)

====
